---- MODULE Spec2Model ----
(***************************************************************************)
(* The note-taking backend of main.go: HTTP handlers that map requests to  *)
(* SQL statements against two SQLite tables, notes and lines.              *)
(*                                                                         *)
(* Every request is served by its own goroutine.  A handler's steps are    *)
(* cut where it touches shared state: the clock (time.Now) and the store   *)
(* (one step per SQL statement).  Text is a sequence of characters, an     *)
(* instant is a natural number.                                            *)
(***************************************************************************)
EXTENDS Naturals, Sequences, FiniteSets, TLC

VARIABLES
    notes,      \* table notes: id -> [title, content, created_at, last_modified]
    lines,      \* table lines: id -> [note_id, content, timestamp]
    noteSeq,    \* sqlite_sequence of notes (AUTOINCREMENT)
    lineSeq,    \* sqlite_sequence of lines (AUTOINCREMENT)
    clock,      \* the last instant time.Now() returned (monotonic: every call
                \* returns a later instant than the one before)
    inflight,   \* the handlers between two steps: request, position and locals
    resp        \* the response written last, with the request it answers

vars == <<notes, lines, noteSeq, lineSeq, clock, inflight, resp>>

\* ------------------------------------------------------------------ bounds
\* The number of time.Now() calls of a behaviour.  Every handler that stays
\* in flight has made one, so this bounds the concurrent handlers as well.
MaxClock == 3

\* ------------------------------------------------------------------ inputs
\* Path ids the router's [0-9]+ pattern lets through, as digit sequences.
\* Note 1 is absent before the first createNote and after its deleteNote.
PathIds == {<<1>>}

\* Request bodies: raw text the JSON decoder either rejects or reads as an
\* object with some of the fields present.
Bodies ==
    { [valid |-> FALSE, fields |-> <<>>],
      [valid |-> TRUE,  fields |-> <<>>],
      [valid |-> TRUE,  fields |-> [title |-> <<"a">>, content |-> <<"D">>]] }

\* Values of the q parameter; <<>> is both "q=" and no q at all.
Queries == {<<>>, <<"d">>}

\* ------------------------------------------------------------------ helpers
StatusOK == 200
StatusCreated == 201
StatusBadRequest == 400
StatusInternalServerError == 500

DefaultTitle == <<"U","n","t","i","t","l","e","d"," ","D","i","a","r","y">>

\* The zero time.Time of a field the handler never sets.
ZeroTime == 0

\* parseInt: fmt.Sscanf(s, "%d", &i) on a string of digits.
RECURSIVE parseInt(_)
parseInt(s) ==
    IF s = <<>> THEN 0
    ELSE 10 * parseInt(SubSeq(s, 1, Len(s) - 1)) + s[Len(s)]

DecodeNeverFails(body) == FALSE

\* json.Decoder.Decode into a Note or a Line: an error on text that is not
\* JSON, otherwise every field the object lacks keeps its zero value.
DecodeErr(body) == ~body.valid

DecodeField(body, name) ==
    IF name \in DOMAIN body.fields THEN body.fields[name] ELSE <<>>

\* createNote's default title.
KeepTitle(title) == title

TitleOrDefault(title) == IF title = <<>> THEN DefaultTitle ELSE title

Restrict(f, S) == [x \in S |-> f[x]]

Extend(f, k, v) == [x \in DOMAIN f \cup {k} |-> IF x = k THEN v ELSE f[x]]

\* ------------------------------------------------------------------ store
\* sql.Open(dbPath) passes no _foreign_keys option and no PRAGMA is issued,
\* so SQLite keeps its default: foreign keys are parsed and not enforced.
ForeignKeys == FALSE

\* INSERT INTO notes(title, content, created_at, last_modified)
InsertNote(title, content, created, modified) ==
    /\ noteSeq' = noteSeq + 1
    /\ notes' = Extend(notes, noteSeq + 1,
                       [title |-> title, content |-> content,
                        created_at |-> created, last_modified |-> modified])

\* The UPDATE written as INSERT OR REPLACE: a missing id gets a row.
UpsertNoteRow(id, title, content, modified) ==
    notes' = Extend(notes, id,
                    [title |-> title, content |-> content,
                     created_at |-> IF id \in DOMAIN notes THEN notes[id].created_at
                                    ELSE modified,
                     last_modified |-> modified])

\* UPDATE notes SET title = ?, content = ?, last_modified = ? WHERE id = ?
UpdateNoteRow(id, title, content, modified) ==
    notes' = [n \in DOMAIN notes |->
                IF n = id
                THEN [notes[n] EXCEPT !.title = title, !.content = content,
                                      !.last_modified = modified]
                ELSE notes[n]]

\* The UPDATE without its WHERE clause.
TouchEveryNoteRow(id, modified) ==
    notes' = [n \in DOMAIN notes |-> [notes[n] EXCEPT !.last_modified = modified]]

\* UPDATE notes SET last_modified = ? WHERE id = ?
TouchNoteRow(id, modified) ==
    notes' = [n \in DOMAIN notes |->
                IF n = id THEN [notes[n] EXCEPT !.last_modified = modified]
                ELSE notes[n]]

\* DELETE FROM notes WHERE id = ?  (ON DELETE CASCADE acts when enforced)
DeleteNoteRow(id) ==
    /\ notes' = Restrict(notes, DOMAIN notes \ {id})
    /\ lines' = IF ForeignKeys
                THEN Restrict(lines, {l \in DOMAIN lines : lines[l].note_id # id})
                ELSE lines

\* Whether INSERT INTO lines is refused by the FOREIGN KEY clause.
ForeignKeyViolation(noteId) == ForeignKeys /\ noteId \notin DOMAIN notes

\* INSERT INTO lines(note_id, content, timestamp)
InsertLine(noteId, content, ts) ==
    /\ lineSeq' = lineSeq + 1
    /\ lines' = Extend(lines, lineSeq + 1,
                       [note_id |-> noteId, content |-> content, timestamp |-> ts])


\* SELECT ... FROM lines WHERE note_id = ? ORDER BY timestamp ASC
\* (rows of equal timestamp in rowid order)
RECURSIVE OrderByTimestamp(_)
OrderByTimestamp(S) ==
    IF S = {} THEN <<>>
    ELSE LET first == CHOOSE l \in S : \A m \in S :
                         \/ lines[l].timestamp < lines[m].timestamp
                         \/ lines[l].timestamp = lines[m].timestamp /\ l <= m
         IN  <<[id |-> first, note_id |-> lines[first].note_id,
                content |-> lines[first].content,
                timestamp |-> lines[first].timestamp]>>
             \o OrderByTimestamp(S \ {first})

SelectLines(id) == OrderByTimestamp({l \in DOMAIN lines : lines[l].note_id = id})

\* SQLite's LIKE: % matches any run of characters, _ any one character,
\* letters match without regard to ASCII case.
Lower(c) ==
    LET up == [A |-> "a", B |-> "b", C |-> "c", D |-> "d", E |-> "e", F |-> "f",
               G |-> "g", H |-> "h", I |-> "i", J |-> "j", K |-> "k", L |-> "l",
               M |-> "m", N |-> "n", O |-> "o", P |-> "p", Q |-> "q", R |-> "r",
               S |-> "s", T |-> "t", U |-> "u", V |-> "v", W |-> "w", X |-> "x",
               Y |-> "y", Z |-> "z"]
    IN  IF c \in DOMAIN up THEN up[c] ELSE c

RECURSIVE Like(_, _)
Like(pat, s) ==
    IF pat = <<>> THEN s = <<>>
    ELSE IF Head(pat) = "%"
         THEN \E k \in 0..Len(s) : Like(Tail(pat), SubSeq(s, k + 1, Len(s)))
    ELSE IF s = <<>> THEN FALSE
    ELSE IF Head(pat) = "_" THEN Like(Tail(pat), Tail(s))
    ELSE Lower(Head(pat)) = Lower(Head(s)) /\ Like(Tail(pat), Tail(s))

\* ... ORDER BY last_modified DESC (rows of equal last_modified in rowid order)
RECURSIVE OrderByLastModifiedDesc(_)
OrderByLastModifiedDesc(S) ==
    IF S = {} THEN <<>>
    ELSE LET first == CHOOSE n \in S : \A m \in S :
                         \/ notes[n].last_modified > notes[m].last_modified
                         \/ notes[n].last_modified = notes[m].last_modified /\ n <= m
         IN  <<[id |-> first, title |-> notes[first].title,
                content |-> notes[first].content,
                created_at |-> notes[first].created_at,
                last_modified |-> notes[first].last_modified]>>
             \o OrderByLastModifiedDesc(S \ {first})

\* SELECT ... FROM notes WHERE title LIKE ? OR content LIKE ? ORDER BY last_modified DESC
SelectNotesLike(q) ==
    LET pat == <<"%">> \o q \o <<"%">>
    IN  OrderByLastModifiedDesc({n \in DOMAIN notes :
            Like(pat, notes[n].title) \/ Like(pat, notes[n].content)})

\* ------------------------------------------------------------------ requests
NoBody == [valid |-> FALSE, fields |-> <<>>]

Request(op, id, body, q) == [op |-> op, id |-> id, body |-> body, q |-> q]

NoResp == [r |-> Request("none", <<>>, NoBody, <<>>), code |-> 0, body |-> [none |-> TRUE]]

StoreErr == "store error"

\* A handler past its time.Now() call, waiting to issue the statement at pc.
Handler(r, pc, title, content, now, rowid) ==
    [r |-> r, pc |-> pc, title |-> title, content |-> content, now |-> now,
     rowid |-> rowid]

\* respondWithJSON: the status code and the payload written to the client.
respondWithJSON(r, code, payload) ==
    resp' = [r |-> r, code |-> code, body |-> payload]

respondWithError(r, code, message) ==
    respondWithJSON(r, code, [error |-> message])

Init ==
    /\ notes = <<>>
    /\ lines = <<>>
    /\ noteSeq = 0
    /\ lineSeq = 0
    /\ clock = 0
    /\ inflight = {}
    /\ resp = NoResp

\* ------------------------------------------------------------------ createNote
createNote(body) ==
    LET r == Request("createNote", <<>>, body, <<>>)
        title == DecodeField(body, "title")
    IN  /\ IF DecodeErr(body)
           THEN /\ respondWithError(r, StatusBadRequest, "Invalid request payload")
                /\ UNCHANGED <<clock, inflight>>
           ELSE /\ clock < MaxClock
                /\ clock' = clock + 1
                /\ inflight' = inflight \cup
                       {Handler(r, "insert",
                                TitleOrDefault(title),
                                DecodeField(body, "content"), clock + 1, 0)}
                /\ UNCHANGED resp
        /\ UNCHANGED <<notes, lines, noteSeq, lineSeq>>

\* result.LastInsertId() of this driver returns no error: one outcome per
\* successful INSERT.
createNoteInsert(h, err) ==
    /\ h.r.op = "createNote" /\ h.pc = "insert"
    /\ inflight' = inflight \ {h}
    /\ IF err
       THEN /\ respondWithError(h.r, StatusInternalServerError, StoreErr)
            /\ UNCHANGED <<notes, noteSeq>>
       ELSE /\ InsertNote(h.title, h.content, h.now, h.now)
            /\ respondWithJSON(h.r, StatusCreated,
                   [id |-> noteSeq + 1, title |-> h.title, content |-> h.content,
                    created_at |-> h.now, last_modified |-> h.now])
    /\ UNCHANGED <<lines, lineSeq, clock>>

\* ------------------------------------------------------------------ updateNote
updateNote(id, body) ==
    LET r == Request("updateNote", id, body, <<>>)
    IN  /\ IF DecodeErr(body)
           THEN /\ respondWithError(r, StatusBadRequest, "Invalid request payload")
                /\ UNCHANGED <<clock, inflight>>
           ELSE /\ clock < MaxClock
                /\ clock' = clock + 1
                /\ inflight' = inflight \cup
                       {Handler(r, "update", DecodeField(body, "title"),
                                DecodeField(body, "content"), clock + 1, 0)}
                /\ UNCHANGED resp
        /\ UNCHANGED <<notes, lines, noteSeq, lineSeq>>

updateNoteUpdate(h, err) ==
    /\ h.r.op = "updateNote" /\ h.pc = "update"
    /\ inflight' = inflight \ {h}
    /\ IF err
       THEN /\ respondWithError(h.r, StatusInternalServerError, StoreErr)
            /\ UNCHANGED notes
       ELSE /\ UpdateNoteRow(parseInt(h.r.id), h.title, h.content, h.now)
            /\ respondWithJSON(h.r, StatusOK,
                   [id |-> parseInt(h.r.id), title |-> h.title, content |-> h.content,
                    created_at |-> ZeroTime, last_modified |-> h.now])
    /\ UNCHANGED <<lines, noteSeq, lineSeq, clock>>

\* ------------------------------------------------------------------ deleteNote
deleteNote(id, err) ==
    LET r == Request("deleteNote", id, NoBody, <<>>)
    IN  /\ IF err
           THEN /\ respondWithError(r, StatusInternalServerError, StoreErr)
                /\ UNCHANGED <<notes, lines>>
           ELSE /\ DeleteNoteRow(parseInt(id))
                /\ respondWithJSON(r, StatusOK, [message |-> "Note deleted successfully"])
        /\ UNCHANGED <<noteSeq, lineSeq, clock, inflight>>

\* ------------------------------------------------------------------ getLines
getLines(id, err) ==
    LET r == Request("getLines", id, NoBody, <<>>)
    IN  /\ IF err
           THEN respondWithError(r, StatusInternalServerError, StoreErr)
           ELSE respondWithJSON(r, StatusOK, [rows |-> SelectLines(parseInt(id))])
        /\ UNCHANGED <<notes, lines, noteSeq, lineSeq, clock, inflight>>

\* ------------------------------------------------------------------ addLine
addLine(id, body) ==
    LET r == Request("addLine", id, body, <<>>)
    IN  /\ IF DecodeErr(body)
           THEN /\ respondWithError(r, StatusBadRequest, "Invalid request payload")
                /\ UNCHANGED <<clock, inflight>>
           ELSE /\ clock < MaxClock
                /\ clock' = clock + 1
                /\ inflight' = inflight \cup
                       {Handler(r, "insert", <<>>, DecodeField(body, "content"),
                                clock + 1, 0)}
                /\ UNCHANGED resp
        /\ UNCHANGED <<notes, lines, noteSeq, lineSeq>>

addLineInsert(h, err) ==
    /\ h.r.op = "addLine" /\ h.pc = "insert"
    /\ IF err \/ ForeignKeyViolation(parseInt(h.r.id))
       THEN /\ respondWithError(h.r, StatusInternalServerError, StoreErr)
            /\ inflight' = inflight \ {h}
            /\ UNCHANGED <<lines, lineSeq>>
       ELSE /\ InsertLine(parseInt(h.r.id), h.content, h.now)
            /\ inflight' = (inflight \ {h}) \cup
                   {[h EXCEPT !.pc = "update", !.rowid = lineSeq + 1]}
            /\ UNCHANGED resp
    /\ UNCHANGED <<notes, noteSeq, clock>>

\* addLine with both statements in one transaction: a failed UPDATE rolls
\* the INSERT back.
addLineUpdateInTx(h, err) ==
    /\ h.r.op = "addLine" /\ h.pc = "update"
    /\ inflight' = inflight \ {h}
    /\ IF err
       THEN /\ respondWithError(h.r, StatusInternalServerError, StoreErr)
            /\ lines' = Restrict(lines, DOMAIN lines \ {h.rowid})
            /\ UNCHANGED notes
       ELSE /\ TouchNoteRow(parseInt(h.r.id), h.now)
            /\ respondWithJSON(h.r, StatusCreated,
                   [id |-> h.rowid, note_id |-> parseInt(h.r.id),
                    content |-> h.content, timestamp |-> h.now])
            /\ UNCHANGED lines
    /\ UNCHANGED <<noteSeq, lineSeq, clock>>

addLineUpdate(h, err) ==
    /\ h.r.op = "addLine" /\ h.pc = "update"
    /\ inflight' = inflight \ {h}
    /\ IF err
       THEN /\ respondWithError(h.r, StatusInternalServerError, StoreErr)
            /\ UNCHANGED notes
       ELSE /\ TouchNoteRow(parseInt(h.r.id), h.now)
            /\ respondWithJSON(h.r, StatusCreated,
                   [id |-> h.rowid, note_id |-> parseInt(h.r.id),
                    content |-> h.content, timestamp |-> h.now])
    /\ UNCHANGED <<lines, noteSeq, lineSeq, clock>>

\* ------------------------------------------------------------------ searchNotes
searchNotes(q, err) ==
    LET r == Request("searchNotes", <<>>, NoBody, q)
    IN  /\ IF q = <<>>
           THEN respondWithError(r, StatusBadRequest, "Search query is required")
           ELSE IF err
           THEN respondWithError(r, StatusInternalServerError, StoreErr)
           ELSE respondWithJSON(r, StatusOK, [rows |-> SelectNotesLike(q)])
        /\ UNCHANGED <<notes, lines, noteSeq, lineSeq, clock, inflight>>

\* ------------------------------------------------------------------ specification
\* The router: a request starts its handler; a handler in flight takes its
\* next step.  err = TRUE: the store returns an error for the statement.
setupRoutes(Errs) ==
    \/ \E b \in Bodies : createNote(b)
    \/ \E i \in PathIds, b \in Bodies : updateNote(i, b)
    \/ \E i \in PathIds, b \in Bodies : addLine(i, b)
    \/ \E i \in PathIds, err \in Errs : deleteNote(i, err)
    \/ \E i \in PathIds, err \in Errs : getLines(i, err)
    \/ \E q \in Queries, err \in Errs : searchNotes(q, err)
    \/ \E h \in inflight, err \in Errs : createNoteInsert(h, err)
    \/ \E h \in inflight, err \in Errs : updateNoteUpdate(h, err)
    \/ \E h \in inflight, err \in Errs : addLineInsert(h, err)
    \/ \E h \in inflight, err \in Errs : addLineUpdate(h, err)

Next == setupRoutes(BOOLEAN)

Spec == Init /\ [][Next]_vars

\* The behaviours in which no statement fails.
NextOK == setupRoutes({FALSE})

SpecOK == Init /\ [][NextOK]_vars


\* The behaviours in which no statement fails, no note is deleted, and
\* updateNote and addLine are requested for stored notes only.
NextSameNote ==
    \/ \E b \in Bodies : createNote(b)
    \/ \E i \in PathIds, b \in Bodies :
          parseInt(i) \in DOMAIN notes /\ updateNote(i, b)
    \/ \E i \in PathIds, b \in Bodies :
          parseInt(i) \in DOMAIN notes /\ addLine(i, b)
    \/ \E h \in inflight : createNoteInsert(h, FALSE)
    \/ \E h \in inflight : updateNoteUpdate(h, FALSE)
    \/ \E h \in inflight : addLineInsert(h, FALSE)
    \/ \E h \in inflight : addLineUpdate(h, FALSE)

SpecSameNote == Init /\ [][NextSameNote]_vars

\* ------------------------------------------------------------------ properties
\* The handler h wrote its response in this step.
Answered(h, code) == h \in inflight /\ h \notin inflight' /\ resp'.code = code

\* A request answered in the step that received it.
AnsweredAtOnce(op) == inflight' = inflight /\ clock' = clock /\ resp'.r.op = op

Stored(n) == [title |-> n.title, content |-> n.content,
              created_at |-> n.created_at, last_modified |-> n.last_modified]

\* C1: every stored line's note_id is the id of a stored note.
C1_NoOrphanLines ==
    \A l \in DOMAIN lines : lines[l].note_id \in DOMAIN notes

\* C2: when deleteNote(N) of a stored note N is answered 200, no stored
\* line has note_id N.
C2_DeleteRemovesLines ==
    [][\A i \in PathIds :
          (/\ AnsweredAtOnce("deleteNote") /\ resp'.r.id = i /\ resp'.code = StatusOK
           /\ parseInt(i) \in DOMAIN notes)
          => \A l \in DOMAIN lines' : lines'[l].note_id # parseInt(i)]_vars

\* C3: every stored note has last_modified >= created_at.
C3_ModifiedNotBeforeCreated ==
    \A n \in DOMAIN notes : notes[n].last_modified >= notes[n].created_at

\* C4: the INSERT of addLine(N, content) stores exactly one new line, with
\* note_id N, the request's content and the instant the request read; its
\* UPDATE, answered 201 with note N stored, leaves that line stored, sets
\* N's last_modified to that instant and changes nothing else of any note.
C4_AddLine ==
    [][\A h \in inflight : h.r.op = "addLine" =>
          LET N == parseInt(h.r.id) IN
          /\ (h.pc = "insert" /\ h \notin inflight' /\ lines' # lines)
             => /\ lineSeq + 1 \notin DOMAIN lines
                /\ lines' = Extend(lines, lineSeq + 1,
                                   [note_id |-> N,
                                    content |-> DecodeField(h.r.body, "content"),
                                    timestamp |-> h.now])
                /\ notes' = notes
          /\ (h.pc = "update" /\ Answered(h, StatusCreated) /\ N \in DOMAIN notes)
             => /\ lines' = lines
                /\ h.rowid \in DOMAIN lines
                /\ lines[h.rowid].note_id = N
                /\ lines[h.rowid].timestamp = h.now
                /\ resp'.body.id = h.rowid
                /\ resp'.body.timestamp = h.now
                /\ DOMAIN notes' = DOMAIN notes
                /\ notes'[N] = [notes[N] EXCEPT !.last_modified = h.now]
                /\ \A m \in DOMAIN notes \ {N} : notes'[m] = notes[m]]_vars

\* addLine has answered 201 for note 1, whose last_modified is the line's
\* timestamp, while another note is stored.
C4_Witness ==
    /\ resp.r.op = "addLine" /\ resp.code = StatusCreated
    /\ parseInt(resp.r.id) \in DOMAIN notes
    /\ notes[parseInt(resp.r.id)].last_modified = resp.body.timestamp
    /\ resp.body.id \in DOMAIN lines
    /\ Cardinality(DOMAIN notes) >= 2

\* C5: the UPDATE of an updateNote request on a stored note leaves the
\* note's last_modified strictly greater than it was before the statement.
C5_UpdateIncreasesModified ==
    [][\A h \in inflight :
          LET N == parseInt(h.r.id) IN
          (h.r.op = "updateNote" /\ Answered(h, StatusOK) /\ N \in DOMAIN notes)
          => notes'[N].last_modified > notes[N].last_modified]_vars

\* C6: the note createNote returns with 201 is the row it inserted, under a
\* new id, with created_at = last_modified and the input title, or
\* "Untitled Diary" for an empty one.
C6_CreateNote ==
    [][\A h \in inflight :
          (h.r.op = "createNote" /\ Answered(h, StatusCreated))
          => LET n == resp'.body
                 given == DecodeField(h.r.body, "title") IN
             /\ n.created_at = n.last_modified
             /\ n.title # <<>>
             /\ n.title = IF given = <<>> THEN DefaultTitle ELSE given
             /\ n.id \notin DOMAIN notes
             /\ DOMAIN notes' = DOMAIN notes \cup {n.id}
             /\ notes'[n.id] = Stored(n)
             /\ \A m \in DOMAIN notes : notes'[m] = notes[m]]_vars

\* createNote has answered 201 to a body without a title.
C6_Witness ==
    /\ resp.r.op = "createNote" /\ resp.code = StatusCreated
    /\ DecodeField(resp.r.body, "title") = <<>>
    /\ resp.body.title = DefaultTitle
    /\ resp.body.id \in DOMAIN notes

WantsBody(op) == op \in {"createNote", "updateNote", "addLine"}

\* C7: a step that answers 400 changes neither table nor sequence and
\* leaves no handler behind; a request whose body does not decode, and a
\* search whose q is empty, is answered 400 and nothing else.
C7_ClientErrors ==
    [][/\ (resp'.code = StatusBadRequest /\ resp' # resp)
          => /\ UNCHANGED <<notes, lines, noteSeq, lineSeq>>
             /\ inflight' = inflight
       /\ (WantsBody(resp'.r.op) /\ ~resp'.r.body.valid)
          => resp'.code = StatusBadRequest
       /\ (resp'.r.op = "searchNotes" /\ resp'.r.q = <<>>)
          => resp'.code = StatusBadRequest
       /\ \A h \in inflight' : h.r.body.valid]_vars

\* searchNotes has answered 400 to an empty q while a note is stored.
C7_Witness ==
    /\ resp.r.op = "searchNotes" /\ resp.r.q = <<>>
    /\ resp.code = StatusBadRequest
    /\ notes # <<>>

\* C8: with no store failure, updateNote and deleteNote on an id that
\* matches no stored note are answered 200 and change neither table.
C8_MissingId ==
    [][/\ \A h \in inflight :
             (/\ h.r.op = "updateNote" /\ h \notin inflight'
              /\ parseInt(h.r.id) \notin DOMAIN notes)
             => resp'.code = StatusOK /\ UNCHANGED <<notes, lines>>
       /\ (/\ AnsweredAtOnce("deleteNote")
           /\ parseInt(resp'.r.id) \notin DOMAIN notes)
          => resp'.code = StatusOK /\ UNCHANGED <<notes, lines>>]_vars

\* updateNote has answered 200 for an id that matches no note, while another
\* note is stored.
C8_Witness ==
    /\ resp.r.op = "updateNote" /\ resp.code = StatusOK
    /\ resp.body.id \notin DOMAIN notes
    /\ notes # <<>>

\* C9: an addLine answered 500 at its UPDATE leaves the inserted line stored
\* and both tables as they were; answered 500 at its INSERT it changes
\* neither table; at its UPDATE it is answered 201 or 500.
C9_AddLineFailure ==
    [][\A h \in inflight : (h.r.op = "addLine" /\ h \notin inflight') =>
          /\ (h.pc = "update")
             => resp'.code \in {StatusCreated, StatusInternalServerError}
          /\ (h.pc = "update" /\ resp'.code = StatusInternalServerError)
             => /\ h.rowid \in DOMAIN lines'
                /\ lines'[h.rowid].timestamp = h.now
                /\ UNCHANGED <<notes, lines>>
          /\ (h.pc = "insert" /\ resp'.code = StatusInternalServerError
                              /\ inflight' = inflight \ {h})
             => UNCHANGED <<notes, lines, lineSeq>>]_vars

\* addLine has answered 500 and left a line newer than its note's
\* last_modified.
C9_Witness ==
    /\ resp.r.op = "addLine" /\ resp.code = StatusInternalServerError
    /\ \E l \in DOMAIN lines :
          /\ lines[l].note_id \in DOMAIN notes
          /\ notes[lines[l].note_id].last_modified < lines[l].timestamp
          /\ \A h \in inflight : h.now # lines[l].timestamp

\* C10: with no request in flight, a note's last_modified is not before
\* the timestamp of any line stored for it.
C10_QuiescentModified ==
    inflight = {} =>
       \A l \in DOMAIN lines :
          lines[l].note_id \in DOMAIN notes
          => notes[lines[l].note_id].last_modified >= lines[l].timestamp
====
